---- MODULE Spec2Model ----
(***************************************************************************)
(* Context-encoder GAN training (train.py): the loss functions, the        *)
(* training step take_step, the evaluation calc_losses and the epoch loop  *)
(* train with its image dumps, checkpoints and loss histories.             *)
(*                                                                         *)
(* Numbers are exact rationals <<num, den>> (den > 0, lowest terms); NaN   *)
(* is <<0, 0>>.  A tensor is a function from 4-tuples of 0-based indices   *)
(* to integers; a slice of a tensor is its restriction to the selected     *)
(* indices.                                                                *)
(***************************************************************************)
EXTENDS Integers, Sequences, FiniteSets, TLC

VARIABLES
    \* ---- arguments of train (fixed for a run) ----
    epochs,             \* number of epochs
    overlap,            \* overlap width
    use_gpu,            \* TRUE: channel-first tensors
    lr,                 \* learning rate (0: updates leave the parameters alone)
    nTrain,             \* number of batches train_dataset yields
    nVal,               \* number of batches val_dataset yields
    \* ---- models and optimizers ----
    gParam,             \* generator.trainable_variables
    dParam,             \* discriminator.trainable_variables
    gIter,              \* generator_optimizer.iterations
    dIter,              \* discriminator_optimizer.iterations
    \* ---- control ----
    pc,                 \* position in train / take_step / the executor harness
    error,              \* exception that ended the run, or "none"
    \* ---- locals of train ----
    epoch,
    trainIdx,           \* position of the iterator over train_dataset
    valIdx,             \* position of the iterator over val_dataset
    image_batch,        \* id of the batch bound to image_batch/center_batch (0: unbound)
    acc,                \* train_gen_loss, train_disc_loss, val_gen_loss, val_disc_loss, count_train, count_val
    hist,               \* list_train_gen_loss, list_train_disc_loss, list_val_gen_loss, list_val_disc_loss
    \* ---- locals of take_step ----
    ts,
    \* ---- what the run wrote ----
    dumps,              \* image dumps written: set of records
    ckpts,              \* checkpoints written: sequence of records
    plotted,            \* the histories plot_loss received, or <<>>
    \* ---- observation ----
    callLog,            \* executor calls of the current epoch, with what they returned
    calls,              \* number of executor calls the harness has made
    \* ---- generator_loss applied on its own ----
    lossIn,
    lossOut

vars == <<epochs, overlap, use_gpu, lr, nTrain, nVal, gParam, dParam, gIter, dIter,
          pc, error, epoch, trainIdx, valIdx, image_batch, acc, hist, ts,
          dumps, ckpts, plotted, callLog, calls, lossIn, lossOut>>

\* ------------------------------------------------------------------------
\* Bounds
MaxEpochs == 10
MaxTrain == 3
MaxVal == 2
MaxCalls == 3
MaxN == 4
MaxW == 2
MaxPix == 2

\* Values of the overlap and lr arguments the runs are given
Overlaps == {0, 1}
Rates == {0, 1}

\* Shape (batch, height, width, channels) of the batches the datasets yield
BatchShape == <<1, 3, 3, 1>>

\* ------------------------------------------------------------------------
\* Exact arithmetic
NaN == <<0, 0>>
IsNaN(a) == a[2] = 0

Abs(x) == IF x < 0 THEN -x ELSE x

RECURSIVE GCD(_, _)
GCD(a, b) == IF b = 0 THEN a ELSE GCD(b, a % b)

Norm(n, d) ==
    LET g == GCD(Abs(n), d) IN <<n \div g, d \div g>>

Whole(k) == <<k, 1>>

RAdd(a, b) ==
    IF IsNaN(a) \/ IsNaN(b) THEN NaN
    ELSE LET g == GCD(a[2], b[2])
             l == (a[2] \div g) * b[2]
         IN  Norm(a[1] * (l \div a[2]) + b[1] * (l \div b[2]), l)

RMul(a, b) ==
    IF IsNaN(a) \/ IsNaN(b) THEN NaN
    ELSE LET g1 == GCD(Abs(a[1]), b[2])
             g2 == GCD(Abs(b[1]), a[2])
         IN  Norm((a[1] \div g1) * (b[1] \div g2), (a[2] \div g2) * (b[2] \div g1))

\* tensor / count for a count > 0
RDivInt(a, k) == IF IsNaN(a) THEN NaN ELSE RMul(a, <<1, k>>)

RECURSIVE SumOver(_, _)
SumOver(S, f) ==
    IF S = {} THEN 0
    ELSE LET x == CHOOSE y \in S : TRUE IN f[x] + SumOver(S \ {x}, f)

\* ------------------------------------------------------------------------
\* Tensors
Box(shape) ==
    {<<a, b, c, d>> : a \in 0..(shape[1] - 1), b \in 0..(shape[2] - 1),
                      c \in 0..(shape[3] - 1), d \in 0..(shape[4] - 1)}

\* length of axis k (1..4) of a full tensor
Dim(t, k) == Cardinality({i[k] : i \in DOMAIN t})

\* tf.transpose(t, (0, 3, 1, 2)): out[b, c, h, w] = t[b, h, w, c]
TransposeToChannelFirst(t) ==
    [j \in {<<i[1], i[4], i[2], i[3]>> : i \in DOMAIN t} |-> t[<<j[1], j[3], j[4], j[2]>>]]

\* Python's a:b on an axis of length n.  An end is None (omitted) or At(k).
None == <<>>
At(k) == <<k>>
SliceStart(a, n) ==
    IF a = None THEN 0
    ELSE IF a[1] < 0 THEN (IF a[1] + n < 0 THEN 0 ELSE a[1] + n)
         ELSE (IF a[1] > n THEN n ELSE a[1])
SliceStop(b, n) ==
    IF b = None THEN n
    ELSE IF b[1] < 0 THEN (IF b[1] + n < 0 THEN 0 ELSE b[1] + n)
         ELSE (IF b[1] > n THEN n ELSE b[1])
SliceIdx(a, b, n) == SliceStart(a, n) .. (SliceStop(b, n) - 1)

All == <<None, None>>

\* t[s1, s2, s3, s4], each s a pair <<start, stop>>
Slice(t, s1, s2, s3, s4) ==
    LET keep == {i \in DOMAIN t :
                    /\ i[1] \in SliceIdx(s1[1], s1[2], Dim(t, 1))
                    /\ i[2] \in SliceIdx(s2[1], s2[2], Dim(t, 2))
                    /\ i[3] \in SliceIdx(s3[1], s3[2], Dim(t, 3))
                    /\ i[4] \in SliceIdx(s4[1], s4[2], Dim(t, 4))}
    IN  [i \in keep |-> t[i]]

\* ------------------------------------------------------------------------
\* Losses (train.py 18-84)

\* tf.keras.losses.MeanSquaredError, SUM_OVER_BATCH_SIZE: the mean over all
\* elements of the squared difference; the mean of no element is NaN
MSE(y_true, y_pred) ==
    IF DOMAIN y_true = {} THEN NaN
    ELSE LET sq == [i \in DOMAIN y_true |-> (y_true[i] - y_pred[i]) * (y_true[i] - y_pred[i])]
         IN  Norm(SumOver(DOMAIN y_true, sq), Cardinality(DOMAIN y_true))

\* tf.ones_like / tf.zeros_like
ones_like(t) == [i \in DOMAIN t |-> 1]
zeros_like(t) == [i \in DOMAIN t |-> 0]

\* tf.keras.losses.BinaryCrossentropy(from_logits=True), SUM_OVER_BATCH_SIZE:
\* the mean over the batch of max(x, 0) - x * z + log(1 + exp(-|x|)) for logit
\* x and label z.  The model keeps the piecewise-linear part max(x, 0) - x * z.
cross_entropy(labels, logits) ==
    IF DOMAIN logits = {} THEN NaN
    ELSE LET bce == [i \in DOMAIN logits |->
                        (IF logits[i] > 0 THEN logits[i] ELSE 0) - logits[i] * labels[i]]
         IN  Norm(SumOver(DOMAIN logits, bce), Cardinality(DOMAIN logits))

discriminator_loss(real_output, fake_output) ==
    LET real_loss == cross_entropy(ones_like(real_output), real_output)
        fake_loss == cross_entropy(zeros_like(fake_output), fake_output)
    IN  RAdd(real_loss, fake_loss)

weight_l2 == <<9, 10>>
weight_adv == <<1, 10>>

\* train.py 60-61 (channel-first) and 69-70 (channel-last): t[.., ov:-ov, ov:-ov, ..]
CenterSlice(t, ov, gpu) ==
    IF gpu THEN Slice(t, All, All, <<At(ov), At(-ov)>>, <<At(ov), At(-ov)>>)
           ELSE Slice(t, All, <<At(ov), At(-ov)>>, <<At(ov), At(-ov)>>, All)

\* train.py 62, 64 and 71, 73: t[.., :ov, :ov, ..]
LeftSlice(t, ov, gpu) ==
    IF gpu THEN Slice(t, All, All, <<None, At(ov)>>, <<None, At(ov)>>)
           ELSE Slice(t, All, <<None, At(ov)>>, <<None, At(ov)>>, All)

\* train.py 63, 65 and 72, 74: t[.., -ov:, -ov:, ..]
RightSlice(t, ov, gpu) ==
    IF gpu THEN Slice(t, All, All, <<At(-ov), None>>, <<At(-ov), None>>)
           ELSE Slice(t, All, <<At(-ov), None>>, <<At(-ov), None>>, All)

\* generator_loss with the channel-last slicing applied in both layouts
generator_loss_one_layout(fake_output, y_true, y_pred, ov, gpu) ==
    LET adv_loss == cross_entropy(ones_like(fake_output), fake_output)
        center_loss == MSE(CenterSlice(y_true, ov, FALSE), CenterSlice(y_pred, ov, FALSE))
        overlap_loss ==
            RMul(Whole(10), RAdd(MSE(LeftSlice(y_true, ov, FALSE), LeftSlice(y_pred, ov, FALSE)),
                                 MSE(RightSlice(y_true, ov, FALSE), RightSlice(y_pred, ov, FALSE))))
        l2_loss == IF ov # 0 THEN RAdd(center_loss, overlap_loss)
                   ELSE MSE(y_true, y_pred)
    IN  RAdd(RMul(weight_l2, l2_loss), RMul(weight_adv, adv_loss))

generator_loss(fake_output, y_true, y_pred, ov, gpu) ==
    LET adv_loss == cross_entropy(ones_like(fake_output), fake_output)
        center_loss == MSE(CenterSlice(y_true, ov, gpu), CenterSlice(y_pred, ov, gpu))
        overlap_loss ==
            RMul(Whole(10), RAdd(MSE(LeftSlice(y_true, ov, gpu), LeftSlice(y_pred, ov, gpu)),
                                 MSE(RightSlice(y_true, ov, gpu), RightSlice(y_pred, ov, gpu))))
        l2_loss == IF ov # 0 THEN RAdd(center_loss, overlap_loss)
                   ELSE MSE(y_true, y_pred)
    IN  RAdd(RMul(weight_l2, l2_loss), RMul(weight_adv, adv_loss))

\* ------------------------------------------------------------------------
\* Datasets, models and optimizers

\* Batch k of a run: train_dataset yields batches 1..nTrain, val_dataset
\* yields batches nTrain+1..nTrain+nVal, each in this order on every pass
\* (train.py 223, 240; load_data.py 103-110: no reshuffling).
TrainBatch(i) == i
ValBatch(j) == nTrain + j

\* the masked images of batch k and its real centers, channel-last
Images(k) == [i \in Box(BatchShape) |-> IF i[2] = 0 /\ i[3] = 0 THEN k ELSE 0]
Centers(k) ==
    [i \in Box(BatchShape) |->
        IF i[2] = BatchShape[2] - 1 /\ i[3] = BatchShape[3] - 1 THEN k ELSE 0]

\* train.py 224-226, 241-243: the batch as the loops hand it on
image_batch_of(k, gpu) == IF gpu THEN TransposeToChannelFirst(Images(k)) ELSE Images(k)
center_batch_of(k, gpu) == IF gpu THEN TransposeToChannelFirst(Centers(k)) ELSE Centers(k)

\* How far a network's output moves with its parameters; training mode
\* (dropout, batch statistics) moves it differently from inference mode.
Response(param, training) == (param * (IF training THEN 2 ELSE 1)) % 7

\* generator(images, training=...): a tensor of the centers' shape
generator(images, training, g) ==
    [i \in DOMAIN images |-> images[i] + Response(g, training)]

\* discriminator(centers, training=...): one logit per sample, shape (batch, 1, 1, 1)
discriminator(centers, training, d) ==
    [j \in {<<i[1], 0, 0, 0>> : i \in DOMAIN centers} |->
        SumOver({i \in DOMAIN centers : i[1] = j[1]}, centers) - Response(d, training)]

\* optimizer.apply_gradients: Adam moves the parameters by about its
\* learning rate and counts the update in optimizer.iterations
apply_gradients(param, iterations, rate) == <<param + rate, iterations + 1>>

\* train.py 203-204
generator_rate(rate) == rate * 10
discriminator_rate(rate) == rate

Models == [g |-> gParam, d |-> dParam, gIter |-> gIter, dIter |-> dIter]

\* ------------------------------------------------------------------------
\* take_step (train.py 98-120), one action per block of statements

NoStep == [batch |-> 0, retpc |-> "none", before |-> <<>>, updates |-> <<>>,
           real_output |-> <<>>, generated_centers |-> <<>>, fake_output |-> <<>>,
           disc_loss |-> <<>>, gen_loss |-> <<>>, ret |-> <<>>]

\* the call itself: binds the arguments and remembers where to return
EnterTakeStep(k, retpc) ==
    [NoStep EXCEPT !.batch = k, !.retpc = retpc, !.before = Models]

trainFrame == <<epochs, overlap, use_gpu, lr, nTrain, nVal, error, epoch, trainIdx, valIdx,
                image_batch, acc, hist, dumps, ckpts, plotted, callLog, calls, lossIn, lossOut>>

\* 103-107: the discriminator's forward passes under disc_tape
TsDiscForward ==
    /\ pc = "ts_disc_fwd"
    /\ LET images == image_batch_of(ts.batch, use_gpu)
           real_centers == center_batch_of(ts.batch, use_gpu)
           real_output == discriminator(real_centers, TRUE, dParam)
           generated_centers == generator(images, FALSE, gParam)
           fake_output == discriminator(generated_centers, TRUE, dParam)
           disc_loss == discriminator_loss(real_output, fake_output)
       IN  ts' = [ts EXCEPT !.real_output = real_output,
                            !.generated_centers = generated_centers,
                            !.fake_output = fake_output,
                            !.disc_loss = disc_loss]
    /\ pc' = "ts_disc_upd"
    /\ UNCHANGED <<gParam, dParam, gIter, dIter>>
    /\ UNCHANGED trainFrame

\* 109-110: discriminator_optimizer.apply_gradients
TsDiscUpdate ==
    /\ pc = "ts_disc_upd"
    /\ LET upd == apply_gradients(dParam, dIter, discriminator_rate(lr))
       IN  /\ dParam' = upd[1]
           /\ dIter' = upd[2]
    /\ ts' = [ts EXCEPT !.updates = Append(@, "discriminator")]
    /\ pc' = "ts_gen_fwd"
    /\ UNCHANGED <<gParam, gIter>>
    /\ UNCHANGED trainFrame

\* 113-115 with fake_output computed anew from the updated discriminator
TsGenForwardFresh ==
    /\ pc = "ts_gen_fwd"
    /\ LET images == image_batch_of(ts.batch, use_gpu)
           real_centers == center_batch_of(ts.batch, use_gpu)
           generated_centers == generator(images, TRUE, gParam)
           fake_output == discriminator(generated_centers, TRUE, dParam)
           gen_loss == generator_loss(fake_output, real_centers, generated_centers,
                                      overlap, use_gpu)
       IN  ts' = [ts EXCEPT !.generated_centers = generated_centers,
                            !.fake_output = fake_output,
                            !.gen_loss = gen_loss]
    /\ pc' = "ts_gen_upd"
    /\ UNCHANGED <<gParam, dParam, gIter, dIter>>
    /\ UNCHANGED trainFrame

\* 113-115: the generator's forward pass under gen_tape and its loss
TsGenForward ==
    /\ pc = "ts_gen_fwd"
    /\ LET images == image_batch_of(ts.batch, use_gpu)
           real_centers == center_batch_of(ts.batch, use_gpu)
           generated_centers == generator(images, TRUE, gParam)
           gen_loss == generator_loss(ts.fake_output, real_centers, generated_centers,
                                      overlap, use_gpu)
       IN  ts' = [ts EXCEPT !.generated_centers = generated_centers,
                            !.gen_loss = gen_loss]
    /\ pc' = "ts_gen_upd"
    /\ UNCHANGED <<gParam, dParam, gIter, dIter>>
    /\ UNCHANGED trainFrame

\* 117-118 with the generator update left out
TsGenUpdateSkipped ==
    /\ pc = "ts_gen_upd"
    /\ pc' = "ts_return"
    /\ UNCHANGED <<ts, gParam, dParam, gIter, dIter>>
    /\ UNCHANGED trainFrame

\* 117-118: generator_optimizer.apply_gradients
TsGenUpdate ==
    /\ pc = "ts_gen_upd"
    /\ LET upd == apply_gradients(gParam, gIter, generator_rate(lr))
       IN  /\ gParam' = upd[1]
           /\ gIter' = upd[2]
    /\ ts' = [ts EXCEPT !.updates = Append(@, "generator")]
    /\ pc' = "ts_return"
    /\ UNCHANGED <<dParam, dIter>>
    /\ UNCHANGED trainFrame

\* 120: return gen_loss, disc_loss
TsReturn ==
    /\ pc = "ts_return"
    /\ ts' = [ts EXCEPT !.ret = <<ts.gen_loss, ts.disc_loss>>]
    /\ pc' = ts.retpc
    /\ UNCHANGED <<gParam, dParam, gIter, dIter>>
    /\ UNCHANGED trainFrame

\* what the caller of take_step observed of the call
StepEntry == [op |-> "take_step", batch |-> ts.batch, ret |-> ts.ret,
              before |-> ts.before, after |-> Models, locals |-> ts]

\* ------------------------------------------------------------------------
\* calc_losses (train.py 128-137)
calc_losses(images, real_centers, ov, gpu, g, d) ==
    LET generated_centers == generator(images, FALSE, g)
        real_output == discriminator(real_centers, FALSE, d)
        fake_output == discriminator(generated_centers, FALSE, d)
        disc_loss == discriminator_loss(real_output, fake_output)
        gen_loss == generator_loss(fake_output, real_centers, generated_centers, ov, gpu)
    IN  <<gen_loss, disc_loss>>

modelVars == <<gParam, dParam, gIter, dIter>>
argVars == <<epochs, overlap, use_gpu, lr, nTrain, nVal>>
lossVars == <<lossIn, lossOut>>

EvalEntry(k, ret, before, after) ==
    [op |-> "calc_losses", batch |-> k, ret |-> ret, before |-> before, after |-> after,
     locals |-> NoStep]

\* a call of calc_losses that also applies the discriminator's optimizer
EvalCallUpdating(k) ==
    LET upd == apply_gradients(dParam, dIter, discriminator_rate(lr))
    IN  /\ dParam' = upd[1]
        /\ dIter' = upd[2]
        /\ UNCHANGED <<gParam, gIter>>
        /\ callLog' = Append(callLog,
              EvalEntry(k, calc_losses(image_batch_of(k, use_gpu), center_batch_of(k, use_gpu),
                                       overlap, use_gpu, gParam, dParam),
                        Models, Models'))

\* a call of calc_losses on batch k (train.py 244): it reads the models and
\* writes nothing
EvalCall(k) ==
    /\ UNCHANGED modelVars
    /\ callLog' = Append(callLog,
          EvalEntry(k, calc_losses(image_batch_of(k, use_gpu), center_batch_of(k, use_gpu),
                                   overlap, use_gpu, gParam, dParam),
                    Models, Models'))

\* ------------------------------------------------------------------------
\* train (train.py 200-267)

\* 238, 249 without the first epoch
CadenceEveryFifth(e) == (e + 1) % 5 = 0

\* 238, 249: (epoch + 1) % 5 == 0 or epoch == 0
Cadence(e) == (e + 1) % 5 = 0 \/ e = 0

\* 217-222
ZeroAcc == [train_gen_loss |-> Whole(0), train_disc_loss |-> Whole(0),
            val_gen_loss |-> Whole(0), val_disc_loss |-> Whole(0),
            count_train |-> 0, count_val |-> 0]

\* 215-222: the next epoch, or the end of the loop
ForEpoch ==
    /\ pc = "for_epoch"
    /\ IF epoch < epochs
         THEN /\ acc' = ZeroAcc
              /\ trainIdx' = 0
              /\ callLog' = <<>>
              /\ pc' = "for_train"
         ELSE /\ pc' = "plot"
              /\ UNCHANGED <<acc, trainIdx, callLog>>
    /\ UNCHANGED <<epoch, valIdx, image_batch, hist, ts, dumps, ckpts, plotted, error, calls>>
    /\ UNCHANGED <<modelVars, argVars, lossVars>>

\* 223-234 with the loop ending one batch early
ForTrainOneShort ==
    /\ pc = "for_train"
    /\ IF trainIdx + 1 < nTrain
         THEN /\ trainIdx' = trainIdx + 1
              /\ image_batch' = TrainBatch(trainIdx + 1)
              /\ ts' = EnterTakeStep(TrainBatch(trainIdx + 1), "train_acc")
              /\ pc' = "ts_disc_fwd"
         ELSE /\ pc' = "dump_train"
              /\ UNCHANGED <<trainIdx, image_batch, ts>>
    /\ UNCHANGED <<epoch, valIdx, acc, hist, dumps, ckpts, plotted, error, callLog, calls>>
    /\ UNCHANGED <<modelVars, argVars, lossVars>>

\* 223-234: the next training batch is handed to take_step, or the loop ends
ForTrain ==
    /\ pc = "for_train"
    /\ IF trainIdx < nTrain
         THEN /\ trainIdx' = trainIdx + 1
              /\ image_batch' = TrainBatch(trainIdx + 1)
              /\ ts' = EnterTakeStep(TrainBatch(trainIdx + 1), "train_acc")
              /\ pc' = "ts_disc_fwd"
         ELSE /\ pc' = "dump_train"
              /\ UNCHANGED <<trainIdx, image_batch, ts>>
    /\ UNCHANGED <<epoch, valIdx, acc, hist, dumps, ckpts, plotted, error, callLog, calls>>
    /\ UNCHANGED <<modelVars, argVars, lossVars>>

\* 227, 235-237: gen_loss, disc_loss = take_step(...); accumulate
TrainAccumulate ==
    /\ pc = "train_acc"
    /\ LET gen_loss == ts.ret[1]
           disc_loss == ts.ret[2]
       IN  acc' = [acc EXCEPT !.train_gen_loss = RAdd(@, gen_loss),
                              !.train_disc_loss = RAdd(@, disc_loss),
                              !.count_train = @ + 1]
    /\ callLog' = Append(callLog, StepEntry)
    /\ pc' = "for_train"
    /\ UNCHANGED <<epoch, trainIdx, valIdx, image_batch, hist, ts, dumps, ckpts, plotted,
                   error, calls>>
    /\ UNCHANGED <<modelVars, argVars, lossVars>>

\* save_pictures (166-187): one generator pass in inference mode, one file
Picture(type) == [epoch |-> epoch, type |-> type, batch |-> image_batch,
                  models |-> Models]

\* 238-239: the 'train' image dump; savefig may fail, and train catches nothing
DumpTrain ==
    /\ pc = "dump_train"
    /\ valIdx' = 0
    /\ \/ /\ ~Cadence(epoch)
          /\ pc' = "for_val"
          /\ UNCHANGED <<dumps, error>>
       \/ /\ Cadence(epoch)
          /\ image_batch = 0
          /\ error' = "UnboundLocalError"
          /\ pc' = "failed"
          /\ UNCHANGED dumps
       \/ /\ Cadence(epoch)
          /\ image_batch # 0
          /\ \/ /\ dumps' = dumps \cup {Picture("train")}
                /\ pc' = "for_val"
                /\ UNCHANGED error
             \/ /\ error' = "OSError"
                /\ pc' = "failed"
                /\ UNCHANGED dumps
    /\ UNCHANGED <<epoch, trainIdx, image_batch, acc, hist, ts, ckpts, plotted, callLog, calls>>
    /\ UNCHANGED <<modelVars, argVars, lossVars>>

\* 240-247: the next validation batch is handed to calc_losses, or the loop ends
ForVal ==
    /\ pc = "for_val"
    /\ IF valIdx < nVal
         THEN /\ valIdx' = valIdx + 1
              /\ image_batch' = ValBatch(valIdx + 1)
              /\ EvalCall(ValBatch(valIdx + 1))
              /\ LET gen_loss == callLog'[Len(callLog')].ret[1]
                     disc_loss == callLog'[Len(callLog')].ret[2]
                 IN  acc' = [acc EXCEPT !.val_gen_loss = RAdd(@, gen_loss),
                                        !.val_disc_loss = RAdd(@, disc_loss),
                                        !.count_val = @ + 1]
              /\ pc' = "for_val"
         ELSE /\ pc' = "ckpt"
              /\ UNCHANGED <<valIdx, image_batch, acc, callLog, modelVars>>
    /\ UNCHANGED <<epoch, trainIdx, hist, ts, dumps, ckpts, plotted, error, calls>>
    /\ UNCHANGED <<argVars, lossVars>>

\* 249-250: checkpoint.save; the write may fail, and train catches nothing
Checkpoint ==
    /\ pc = "ckpt"
    /\ \/ /\ ~Cadence(epoch)
          /\ pc' = "normalize"
          /\ UNCHANGED <<ckpts, error>>
       \/ /\ Cadence(epoch)
          /\ \/ /\ ckpts' = Append(ckpts, [epoch |-> epoch, models |-> Models,
                                           count_val |-> acc.count_val])
                /\ pc' = "dump_val"
                /\ UNCHANGED error
             \/ /\ error' = "OSError"
                /\ pc' = "failed"
                /\ UNCHANGED ckpts
    /\ UNCHANGED <<epoch, trainIdx, valIdx, image_batch, acc, hist, ts, dumps, plotted,
                   callLog, calls>>
    /\ UNCHANGED <<modelVars, argVars, lossVars>>

\* 251: the 'val' image dump (reached only in a cadence epoch)
DumpVal ==
    /\ pc = "dump_val"
    /\ \/ /\ dumps' = dumps \cup {Picture("val")}
          /\ pc' = "normalize"
          /\ UNCHANGED error
       \/ /\ error' = "OSError"
          /\ pc' = "failed"
          /\ UNCHANGED dumps
    /\ UNCHANGED <<epoch, trainIdx, valIdx, image_batch, acc, hist, ts, ckpts, plotted,
                   callLog, calls>>
    /\ UNCHANGED <<modelVars, argVars, lossVars>>

\* 253-256 with every sum divided by count_train
NormalizedByTrainCount(a) ==
    [train_gen_loss |-> RDivInt(a.train_gen_loss, a.count_train),
     train_disc_loss |-> RDivInt(a.train_disc_loss, a.count_train),
     val_gen_loss |-> RDivInt(a.val_gen_loss, a.count_train),
     val_disc_loss |-> RDivInt(a.val_disc_loss, a.count_train)]

\* 253-256, for counts > 0
Normalized(a) ==
    [train_gen_loss |-> RDivInt(a.train_gen_loss, a.count_train),
     train_disc_loss |-> RDivInt(a.train_disc_loss, a.count_train),
     val_gen_loss |-> RDivInt(a.val_gen_loss, a.count_val),
     val_disc_loss |-> RDivInt(a.val_disc_loss, a.count_val)]

\* 258-261 with the newest entry overwriting the list
Replaced(h, m) ==
    [list_train_gen_loss |-> <<m.train_gen_loss>>,
     list_train_disc_loss |-> <<m.train_disc_loss>>,
     list_val_gen_loss |-> <<m.val_gen_loss>>,
     list_val_disc_loss |-> <<m.val_disc_loss>>]

\* 258-261
Appended(h, m) ==
    [list_train_gen_loss |-> Append(h.list_train_gen_loss, m.train_gen_loss),
     list_train_disc_loss |-> Append(h.list_train_disc_loss, m.train_disc_loss),
     list_val_gen_loss |-> Append(h.list_val_gen_loss, m.val_gen_loss),
     list_val_disc_loss |-> Append(h.list_val_disc_loss, m.val_disc_loss)]

\* 253-261: a count of zero is the Python int 0 / 0, a ZeroDivisionError
Normalize ==
    /\ pc = "normalize"
    /\ IF acc.count_train = 0 \/ acc.count_val = 0
         THEN /\ error' = "ZeroDivisionError"
              /\ pc' = "failed"
              /\ UNCHANGED <<hist, epoch>>
         ELSE /\ hist' = Appended(hist, Normalized(acc))
              /\ epoch' = epoch + 1
              /\ pc' = "for_epoch"
              /\ UNCHANGED error
    /\ UNCHANGED <<trainIdx, valIdx, image_batch, acc, ts, dumps, ckpts, plotted, callLog, calls>>
    /\ UNCHANGED <<modelVars, argVars, lossVars>>

\* 267: plot_loss receives the four histories
Plot ==
    /\ pc = "plot"
    /\ plotted' = <<hist>>
    /\ pc' = "done"
    /\ UNCHANGED <<epoch, trainIdx, valIdx, image_batch, acc, hist, ts, dumps, ckpts, error,
                   callLog, calls>>
    /\ UNCHANGED <<modelVars, argVars, lossVars>>

NoHist == [list_train_gen_loss |-> <<>>, list_train_disc_loss |-> <<>>,
           list_val_gen_loss |-> <<>>, list_val_disc_loss |-> <<>>]

\* 201-214: fresh models and optimizers, empty histories
Constructed ==
    /\ gParam = 0 /\ dParam = 0 /\ gIter = 0 /\ dIter = 0
    /\ error = "none"
    /\ epoch = 0 /\ trainIdx = 0 /\ valIdx = 0 /\ image_batch = 0
    /\ acc = ZeroAcc
    /\ hist = NoHist
    /\ ts = NoStep
    /\ dumps = {} /\ ckpts = <<>> /\ plotted = <<>>
    /\ callLog = <<>>
    /\ calls = 0

Init ==
    /\ epochs \in 0..MaxEpochs
    /\ overlap \in Overlaps
    /\ use_gpu \in BOOLEAN
    /\ lr \in Rates
    /\ nTrain \in 0..MaxTrain
    /\ nVal \in 0..MaxVal
    /\ Constructed
    /\ pc = "for_epoch"
    /\ lossIn = <<>> /\ lossOut = <<>>

Next ==
    \/ ForEpoch
    \/ ForTrain
    \/ TsDiscForward
    \/ TsDiscUpdate
    \/ TsGenForward
    \/ TsGenUpdate
    \/ TsReturn
    \/ TrainAccumulate
    \/ DumpTrain
    \/ ForVal
    \/ Checkpoint
    \/ DumpVal
    \/ Normalize
    \/ Plot

Spec == Init /\ [][Next]_vars

\* ------------------------------------------------------------------------
\* The two executors called directly, in any order, on any batch

\* the batches the harness hands to the executors
ExecBatches == {1, 2}

InitExec ==
    /\ epochs = 0
    /\ overlap \in Overlaps
    /\ use_gpu \in BOOLEAN
    /\ lr \in Rates
    /\ nTrain = MaxTrain
    /\ nVal = MaxVal
    /\ Constructed
    /\ pc = "idle"
    /\ lossIn = <<>> /\ lossOut = <<>>

CallTakeStep ==
    /\ pc = "idle"
    /\ calls < MaxCalls
    /\ \E k \in ExecBatches : ts' = EnterTakeStep(k, "exec_ret")
    /\ calls' = calls + 1
    /\ pc' = "ts_disc_fwd"
    /\ UNCHANGED <<epoch, trainIdx, valIdx, image_batch, acc, hist, dumps, ckpts, plotted,
                   error, callLog>>
    /\ UNCHANGED <<modelVars, argVars, lossVars>>

ExecReturn ==
    /\ pc = "exec_ret"
    /\ callLog' = Append(callLog, StepEntry)
    /\ pc' = "idle"
    /\ UNCHANGED <<epoch, trainIdx, valIdx, image_batch, acc, hist, ts, dumps, ckpts, plotted,
                   error, calls>>
    /\ UNCHANGED <<modelVars, argVars, lossVars>>

CallCalcLosses ==
    /\ pc = "idle"
    /\ calls < MaxCalls
    /\ \E k \in ExecBatches : EvalCall(k)
    /\ calls' = calls + 1
    /\ pc' = "idle"
    /\ UNCHANGED <<epoch, trainIdx, valIdx, image_batch, acc, hist, ts, dumps, ckpts, plotted,
                   error>>
    /\ UNCHANGED <<argVars, lossVars>>

NextExec ==
    \/ CallTakeStep
    \/ TsDiscForward
    \/ TsDiscUpdate
    \/ TsGenForward
    \/ TsGenUpdate
    \/ TsReturn
    \/ ExecReturn
    \/ CallCalcLosses

SpecExec == InitExec /\ [][NextExec]_vars

\* ------------------------------------------------------------------------
\* generator_loss applied to one pair of centers

\* y_true is all zeros; y_pred is base everywhere and base + v at one element
LossInputs ==
    {[n |-> n, w |-> w, gpu |-> gpu, hot |-> hot, base |-> base, v |-> v, logit |-> f] :
        n \in 1..MaxN, w \in 0..MaxW, gpu \in BOOLEAN,
        hot \in (0..(MaxN - 1)) \X (0..(MaxN - 1)) \X (0..1),
        base \in 0..1, v \in 1..MaxPix, f \in {-2, 0, 3}}

\* the centers in channel-last layout: shape (1, n, n, 2)
LossTrue(in) == [i \in Box(<<1, in.n, in.n, 2>>) |-> 0]
LossPred(in) ==
    [i \in Box(<<1, in.n, in.n, 2>>) |->
        in.base + (IF <<i[2], i[3], i[4]>> = in.hot THEN in.v ELSE 0)]
LossFake(in) == [i \in Box(<<1, 1, 1, 1>>) |-> in.logit]

\* the layout the caller hands over (train.py 224-226)
InLayout(t, gpu) == IF gpu THEN TransposeToChannelFirst(t) ELSE t

InitLoss ==
    /\ lossIn \in {in \in LossInputs : in.hot[1] < in.n /\ in.hot[2] < in.n}
    /\ lossOut = <<>>
    /\ pc = "loss"
    /\ epochs = 0 /\ overlap = 0 /\ use_gpu = FALSE /\ lr = 0 /\ nTrain = 0 /\ nVal = 0
    /\ Constructed

ApplyGeneratorLoss ==
    /\ pc = "loss"
    /\ lossOut' = <<generator_loss(LossFake(lossIn),
                                   InLayout(LossTrue(lossIn), lossIn.gpu),
                                   InLayout(LossPred(lossIn), lossIn.gpu),
                                   lossIn.w, lossIn.gpu)>>
    /\ pc' = "loss_done"
    /\ UNCHANGED <<lossIn, epoch, trainIdx, valIdx, image_batch, acc, hist, ts, dumps, ckpts,
                   plotted, error, callLog, calls>>
    /\ UNCHANGED <<modelVars, argVars>>

NextLoss == ApplyGeneratorLoss

SpecLoss == InitLoss /\ [][NextLoss]_vars

\* ========================================================================
\* Properties

EvalEntries == {i \in 1..Len(callLog) : callLog[i].op = "calc_losses"}

\* take_step has just returned to its caller
Returned == pc \in {"train_acc", "exec_ret"}

\* C1: every call of take_step performs exactly one discriminator update and
\* then exactly one generator update - at each position inside the call the
\* optimizers have made exactly the updates due by then, the discriminator's
\* first - and it returns <<gen_loss, disc_loss>> of that call.
C1_OneUpdateEach ==
    /\ pc \in {"ts_disc_fwd", "ts_disc_upd"} =>
          /\ dIter = ts.before.dIter /\ gIter = ts.before.gIter
          /\ ts.updates = <<>>
    /\ pc \in {"ts_gen_fwd", "ts_gen_upd"} =>
          /\ dIter = ts.before.dIter + 1 /\ gIter = ts.before.gIter
          /\ ts.updates = <<"discriminator">>
    /\ pc = "ts_return" =>
          /\ dIter = ts.before.dIter + 1 /\ gIter = ts.before.gIter + 1
          /\ ts.updates = <<"discriminator", "generator">>
    /\ Returned =>
          /\ dIter = ts.before.dIter + 1 /\ gIter = ts.before.gIter + 1
          /\ ts.updates = <<"discriminator", "generator">>
          /\ ts.ret = <<ts.gen_loss, ts.disc_loss>>
          /\ ts.disc_loss = discriminator_loss(ts.real_output, ts.fake_output)
          /\ ts.gen_loss = generator_loss(ts.fake_output, center_batch_of(ts.batch, use_gpu),
                                          ts.generated_centers, overlap, use_gpu)

\* a call of take_step has returned, and both networks moved in it
C1_Witness ==
    /\ Returned
    /\ dParam # ts.before.d /\ gParam # ts.before.g
    /\ ts.ret[1] # ts.ret[2]

\* C2: an image dump and a checkpoint are written in epoch e iff (e + 1) is
\* a multiple of 5 or e is 0: nothing is ever written outside these epochs,
\* every completed epoch among them has exactly one checkpoint, one 'train'
\* dump and one 'val' dump, and a finished run over epochs 0..9 wrote them
\* at exactly {0, 4, 9}.
CadenceEpochs == {0} \cup {5 * k - 1 : k \in 1..(MaxEpochs + 1)}
CkptEpochs == {ckpts[i].epoch : i \in 1..Len(ckpts)}
DumpEpochs(type) == {p.epoch : p \in {q \in dumps : q.type = type}}
C2_Cadence ==
    /\ CkptEpochs \subseteq CadenceEpochs
    /\ DumpEpochs("train") \subseteq CadenceEpochs
    /\ DumpEpochs("val") \subseteq CadenceEpochs
    /\ \A e \in 0..(epoch - 1) :
          /\ e \in CadenceEpochs <=> e \in CkptEpochs
          /\ e \in CadenceEpochs <=> e \in DumpEpochs("train")
          /\ e \in CadenceEpochs <=> e \in DumpEpochs("val")
          /\ Cardinality({i \in 1..Len(ckpts) : ckpts[i].epoch = e}) <= 1
          /\ Cardinality({p \in dumps : p.epoch = e}) <= 2
    /\ (pc = "done" /\ epochs = 10) =>
          /\ CkptEpochs = {0, 4, 9}
          /\ DumpEpochs("train") = {0, 4, 9}
          /\ DumpEpochs("val") = {0, 4, 9}

\* a run over epochs 0..9 has finished and wrote at {0, 4, 9}
C2_Witness ==
    /\ pc = "done" /\ epochs = 10
    /\ CkptEpochs = {0, 4, 9}
    /\ DumpEpochs("val") = {0, 4, 9}

\* C3: each of an epoch's four metrics is the sum of the losses the
\* executors returned for that epoch's batches divided by the number of
\* those batches (training by the training count, validation by the
\* validation count), nothing of an earlier epoch contributing; training
\* losses 1, 2, 3 give the mean 2 and validation losses 4, 5 the mean 9/2.
RECURSIVE RSum(_)
RSum(q) == IF q = <<>> THEN Whole(0) ELSE RAdd(q[1], RSum(Tail(q)))

RECURSIVE Pick(_, _, _)
Pick(log, op, which) ==
    IF log = <<>> THEN <<>>
    ELSE IF log[1].op = op THEN <<log[1].ret[which]>> \o Pick(Tail(log), op, which)
         ELSE Pick(Tail(log), op, which)

IsMeanOf(m, q) == q # <<>> /\ RMul(m, Whole(Len(q))) = RSum(q)

EpochDone == pc = "for_epoch" /\ epoch > 0

C3_EpochMeans ==
    EpochDone =>
        /\ IsMeanOf(hist.list_train_gen_loss[epoch], Pick(callLog, "take_step", 1))
        /\ IsMeanOf(hist.list_train_disc_loss[epoch], Pick(callLog, "take_step", 2))
        /\ IsMeanOf(hist.list_val_gen_loss[epoch], Pick(callLog, "calc_losses", 1))
        /\ IsMeanOf(hist.list_val_disc_loss[epoch], Pick(callLog, "calc_losses", 2))
        /\ Pick(callLog, "take_step", 2) = <<Whole(1), Whole(2), Whole(3)>> =>
              hist.list_train_disc_loss[epoch] = <<2, 1>>
        /\ Pick(callLog, "calc_losses", 2) = <<Whole(4), Whole(5)>> =>
              hist.list_val_disc_loss[epoch] = <<9, 2>>

\* the third epoch is over; its training losses were 1, 2, 3 and its
\* validation losses 4, 5, and the means are 2 and 9/2
C3_Witness ==
    /\ EpochDone /\ epoch = 3
    /\ Pick(callLog, "take_step", 2) = <<Whole(1), Whole(2), Whole(3)>>
    /\ Pick(callLog, "calc_losses", 2) = <<Whole(4), Whole(5)>>
    /\ hist.list_train_disc_loss[epoch] = <<2, 1>>
    /\ hist.list_val_disc_loss[epoch] = <<9, 2>>

\* C4: calc_losses leaves both models' parameters and both optimizers' state
\* as they were, and two calls on the same batch with no take_step between
\* them return the same pair of losses.
NoStepBetween(i, j) == \A m \in i..j : callLog[m].op = "calc_losses"
C4_EvalPure ==
    /\ \A i \in EvalEntries : callLog[i].after = callLog[i].before
    /\ \A i, j \in EvalEntries :
          (i < j /\ callLog[i].batch = callLog[j].batch /\ NoStepBetween(i, j)) =>
              callLog[i].ret = callLog[j].ret

\* after a training step that moved the parameters, calc_losses ran twice on
\* one batch
C4_Witness ==
    /\ Len(callLog) = 3
    /\ callLog[1].op = "take_step" /\ callLog[1].after.d # callLog[1].before.d
    /\ callLog[2].op = "calc_losses" /\ callLog[3].op = "calc_losses"
    /\ callLog[2].batch = callLog[3].batch
    /\ callLog[2].ret = callLog[3].ret
    /\ callLog[3].after = callLog[1].after

\* C5: a run whose training or validation dataset yields no batch ends in a
\* configuration error of its own kind, raised before any checkpoint or image
\* dump is written, and no NaN enters a loss history.
HistValues ==
    {hist.list_train_gen_loss[i] : i \in 1..Len(hist.list_train_gen_loss)}
        \cup {hist.list_train_disc_loss[i] : i \in 1..Len(hist.list_train_disc_loss)}
        \cup {hist.list_val_gen_loss[i] : i \in 1..Len(hist.list_val_gen_loss)}
        \cup {hist.list_val_disc_loss[i] : i \in 1..Len(hist.list_val_disc_loss)}
C5_EmptyDatasetIsConfigurationError ==
    (epochs > 0 /\ (nTrain = 0 \/ nVal = 0)) =>
        /\ ckpts = <<>>
        /\ dumps = {}
        /\ pc = "failed" => error = "ConfigurationError"
        /\ pc # "done"
        /\ \A x \in HistValues : ~IsNaN(x)

\* C6: a failed checkpoint save or image dump does not end the run: no run
\* is stopped by the I/O error, so the epoch's metrics are still appended and
\* the remaining epochs still run.
C6_IoFailureDoesNotAbort ==
    ~(pc = "failed" /\ error = "OSError")

\* C7: the fake_output the generator loss of a take_step call consumes is the
\* discriminator's output from before its update in that call, on the centers
\* the generator produced in inference mode; the generated centers in the loss
\* are those of the training-mode pass.
StaleFake(k, before) ==
    discriminator(generator(image_batch_of(k, use_gpu), FALSE, before.g), TRUE, before.d)
TrainPred(k, before) == generator(image_batch_of(k, use_gpu), TRUE, before.g)
C7_StaleVerdict ==
    (pc \in {"ts_gen_upd", "ts_return"} \/ Returned) =>
        /\ ts.fake_output = StaleFake(ts.batch, ts.before)
        /\ ts.generated_centers = TrainPred(ts.batch, ts.before)
        /\ ts.gen_loss = generator_loss(StaleFake(ts.batch, ts.before),
                                        center_batch_of(ts.batch, use_gpu),
                                        TrainPred(ts.batch, ts.before), overlap, use_gpu)
        /\ Returned => ts.ret[1] = ts.gen_loss

\* a call returned whose generator loss differs from the one a verdict of the
\* updated discriminator would have given
C7_Witness ==
    /\ Returned
    /\ LET fresh == discriminator(TrainPred(ts.batch, ts.before), TRUE, dParam)
       IN  /\ fresh # ts.fake_output
           /\ ts.ret[1] # generator_loss(fresh, center_batch_of(ts.batch, use_gpu),
                                         TrainPred(ts.batch, ts.before), overlap, use_gpu)

\* C8: after k + 1 completed epochs each of the four histories has k + 1
\* entries; a step changes a history only by appending, at the end of an
\* epoch, that epoch's metric to it, so entry i stays the metric of epoch i;
\* plot_loss receives the four histories, each as long as the run has epochs.
Lists(h) == <<h.list_train_gen_loss, h.list_train_disc_loss,
              h.list_val_gen_loss, h.list_val_disc_loss>>
Sums(a) == <<a.train_gen_loss, a.train_disc_loss, a.val_gen_loss, a.val_disc_loss>>
Counts(a) == <<a.count_train, a.count_train, a.count_val, a.count_val>>
C8_Lengths ==
    /\ \A m \in 1..4 : Len(Lists(hist)[m]) = epoch
    /\ pc = "done" =>
          /\ plotted = <<hist>>
          /\ \A m \in 1..4 : Len(Lists(plotted[1])[m]) = epochs
C8_AppendOnly ==
    \A m \in 1..4 :
        LET old == Lists(hist)[m]
            new == Lists(hist')[m]
        IN  \/ new = old
            \/ /\ Len(new) = Len(old) + 1
               /\ SubSeq(new, 1, Len(old)) = old
               /\ Len(old) = epoch /\ epoch' = epoch + 1
               /\ RMul(new[Len(new)], Whole(Counts(acc)[m])) = Sums(acc)[m]
C8_Histories == []C8_Lengths /\ [][C8_AppendOnly]_vars

\* a run of three epochs or more has been plotted
C8_Witness ==
    /\ pc = "done" /\ epochs >= 3
    /\ Len(plotted[1].list_val_gen_loss) = epochs
    /\ plotted[1].list_train_gen_loss[1] # plotted[1].list_train_gen_loss[2]

\* C9: for an n-by-n center and 0 < 2w < n the three slices of
\* generator_loss select, in either layout, the pairwise disjoint regions
\* [w, n-w) x [w, n-w), [0, w) x [0, w) and [n-w, n) x [n-w, n) of the
\* spatial indices, and the loss is 0.9 * (center MSE + 10 * (left MSE +
\* right MSE)) + 0.1 * adversarial loss; for w = 0 the loss is 0.9 * MSE over
\* the whole center + 0.1 * adversarial loss.
Spatial(t, gpu) == {IF gpu THEN <<i[3], i[4]>> ELSE <<i[2], i[3]>> : i \in DOMAIN t}
Square(lo, hi) == (lo..(hi - 1)) \X (lo..(hi - 1))
\* the mean squared error over the elements whose spatial index is in region
RegionMSE(in, region) ==
    LET yt == LossTrue(in)
        yp == LossPred(in)
        els == {i \in DOMAIN yt : <<i[2], i[3]>> \in region}
        sq == [i \in els |-> (yt[i] - yp[i]) * (yt[i] - yp[i])]
    IN  Norm(SumOver(els, sq), Cardinality(els))
Adversarial(in) == IF in.logit < 0 THEN Whole(-in.logit) ELSE Whole(0)
C9_GeneratorLoss ==
    pc = "loss_done" =>
        LET in == lossIn
            n == in.n
            w == in.w
            t == InLayout(LossTrue(in), in.gpu)
            center == Square(w, n - w)
            left == Square(0, w)
            right == Square(n - w, n)
        IN  /\ (0 < 2 * w /\ 2 * w < n) =>
                  /\ Spatial(CenterSlice(t, w, in.gpu), in.gpu) = center
                  /\ Spatial(LeftSlice(t, w, in.gpu), in.gpu) = left
                  /\ Spatial(RightSlice(t, w, in.gpu), in.gpu) = right
                  /\ center \cap left = {} /\ center \cap right = {} /\ left \cap right = {}
                  /\ Cardinality(DOMAIN CenterSlice(t, w, in.gpu)) = 2 * Cardinality(center)
                  /\ Cardinality(DOMAIN LeftSlice(t, w, in.gpu)) = 2 * Cardinality(left)
                  /\ Cardinality(DOMAIN RightSlice(t, w, in.gpu)) = 2 * Cardinality(right)
                  /\ lossOut[1] =
                        RAdd(RMul(<<9, 10>>,
                                  RAdd(RegionMSE(in, center),
                                       RMul(Whole(10), RAdd(RegionMSE(in, left),
                                                            RegionMSE(in, right))))),
                             RMul(<<1, 10>>, Adversarial(in)))
            /\ w = 0 =>
                  lossOut[1] = RAdd(RMul(<<9, 10>>, RegionMSE(in, Square(0, n))),
                                    RMul(<<1, 10>>, Adversarial(in)))

\* channel-first centers with an overlap: the three regions all carry error
\* and the adversarial term is not zero
C9_Witness ==
    /\ pc = "loss_done"
    /\ lossIn.gpu /\ lossIn.n = 4 /\ lossIn.w = 1 /\ lossIn.base = 1 /\ lossIn.logit < 0
    /\ lossIn.hot = <<3, 3, 1>>
    /\ ~IsNaN(lossOut[1])

\* the same with the whole center compared (overlap 0)
C9_WitnessNoOverlap ==
    /\ pc = "loss_done" /\ lossIn.w = 0 /\ lossIn.n = 4 /\ ~IsNaN(lossOut[1])

\* C10: in every epoch take_step is called once for each training batch, in
\* the dataset's order, before the first call of calc_losses; the validation
\* pass changes no parameter and no optimizer state; after E epochs over T
\* training batches each optimizer has applied exactly E * T updates.
ExpectedCalls ==
    [i \in 1..(nTrain + nVal) |->
        IF i <= nTrain THEN <<"take_step", i>> ELSE <<"calc_losses", i>>]
CallsMade == [i \in 1..Len(callLog) |-> <<callLog[i].op, callLog[i].batch>>]
C10_StepsThenEvals ==
    /\ Len(callLog) <= nTrain + nVal
    /\ CallsMade = SubSeq(ExpectedCalls, 1, Len(callLog))
    /\ pc \in {"dump_train", "for_val"} => Len(callLog) >= nTrain
    /\ (pc \in {"ckpt", "dump_val", "normalize"} \/ EpochDone) =>
          Len(callLog) = nTrain + nVal
    /\ pc \in {"for_val", "ckpt", "dump_val", "normalize"} =>
          /\ gIter = (epoch + 1) * nTrain /\ dIter = (epoch + 1) * nTrain
          /\ \A i \in EvalEntries : callLog[i].after = callLog[i].before
    /\ pc \in {"for_epoch", "plot", "done"} =>
          gIter = epoch * nTrain /\ dIter = epoch * nTrain
    /\ pc = "done" => epoch = epochs

\* a finished run of several epochs over several batches, whose parameters moved
C10_Witness ==
    /\ pc = "done" /\ epochs >= 2 /\ nTrain >= 2 /\ nVal >= 2 /\ lr = 1
    /\ gIter = epochs * nTrain /\ dIter = epochs * nTrain
    /\ dParam = epochs * nTrain
    /\ Len(callLog) = nTrain + nVal

\* C11 (the part about the checkpoint): a checkpoint is written after the
\* epoch's last training step and its whole validation pass and before the
\* epoch's metrics are appended, so the state it stores is the state every
\* validation loss of that epoch was computed with, and the 'val' dump that
\* follows is drawn with that same state.
CkptOf(e) == ckpts[CHOOSE i \in 1..Len(ckpts) : ckpts[i].epoch = e]
C11_CheckpointAfterValidation ==
    /\ \A i \in 1..Len(ckpts) :
          /\ ckpts[i].count_val = nVal
          /\ ckpts[i].models.gIter = (ckpts[i].epoch + 1) * nTrain
          /\ ckpts[i].models.dIter = (ckpts[i].epoch + 1) * nTrain
    /\ pc = "dump_val" =>
          /\ ckpts # <<>> /\ ckpts[Len(ckpts)].epoch = epoch
          /\ ckpts[Len(ckpts)].models = Models
          /\ Len(callLog) = nTrain + nVal
          /\ \A i \in EvalEntries : callLog[i].before = ckpts[Len(ckpts)].models
          /\ \A m \in 1..4 : Len(Lists(hist)[m]) = epoch
    /\ (EpochDone /\ (epoch - 1) \in CkptEpochs) =>
          \A i \in EvalEntries : callLog[i].before = CkptOf(epoch - 1).models
    /\ \A q \in dumps :
          q.type = "val" => (q.epoch \in CkptEpochs /\ q.models = CkptOf(q.epoch).models)

\* C11: as above, and the 'val' image dump is drawn from the last batch the
\* validation pass iterated.
C11_CheckpointThenValDump ==
    /\ C11_CheckpointAfterValidation
    /\ \A q \in dumps :
          q.type = "val" => (nVal >= 1 /\ q.batch = nTrain + nVal)

\* the same for the runs whose validation pass iterates a batch
C11_ValDumpOfNonEmptyPass ==
    nVal >= 1 => C11_CheckpointThenValDump

\* a cadence epoch after the first has been checkpointed and dumped, the
\* parameters having moved
C11_Witness ==
    /\ EpochDone /\ epoch = 5 /\ lr = 1 /\ nVal = 2
    /\ 4 \in CkptEpochs /\ CkptOf(4).models.d # 0
    /\ \E q \in dumps : q.type = "val" /\ q.epoch = 4 /\ q.batch = nTrain + nVal

====
